---- MODULE Spec2Model ----
(***************************************************************************)
(* Model of the UniProt manual link checker (src/main.py).                 *)
(*                                                                         *)
(* Strings that the program takes apart (hrefs, URL paths, file names) are *)
(* sequences of tokens: a token is either a delimiter ("/", ":", "//",     *)
(* "?", "#") or a maximal run of other characters.  urlparse, geturl,      *)
(* os.path.split, os.path.join, str.lower and unquote are operators on     *)
(* such sequences, computed the way the library computes them.             *)
(*                                                                         *)
(* The external collaborators (FTP client, page renderer, HTTP client) are *)
(* an environment record env, drawn afresh for every link check, that says *)
(* how each call of the check turns out.                                   *)
(***************************************************************************)
EXTENDS Integers, Sequences, FiniteSets, TLC

VARIABLES
    pc,             \* position of the main block
    i,              \* index into help_files of the document being processed
    els,            \* anchor elements of the current document still to visit
    _dead_links,    \* local list of check_and_standardize_all_links (kept as it
                    \* was when the function was left until the next document is read)
    _dead_anchors,  \* local list of check_and_standardize_all_links (likewise)
    dead_links,     \* returned set, records still to print
    dead_anchors,   \* returned set, records still to print
    lf_buf,         \* rows printed to dead-links.tsv and not yet flushed
    lf_disk,        \* rows of dead-links.tsv on disk
    af_buf,         \* rows printed to dead-anchors.tsv and not yet flushed
    af_disk,        \* rows of dead-anchors.tsv on disk
    last,           \* outcome of the latest is_url_ok call of the running link loop
    outcome         \* per document: how its loop iteration ended and the sets returned for it

vars == <<pc, i, els, _dead_links, _dead_anchors, dead_links, dead_anchors,
          lf_buf, lf_disk, af_buf, af_disk, last, outcome>>

----------------------------------------------------------------------------
(* Bounds *)

NumDocs == 2
MaxAnchors == 2
MaxSegs == 2

----------------------------------------------------------------------------
(* Program constants, as token sequences *)

UNIPROT_BETA_HELP_URL == <<"https", ":", "//", "beta.uniprot.org", "/", "help">>
UNIPROT_ORG_URL == "www.uniprot.org"
UNIPROT_BETA_URL == "beta.uniprot.org"
UNIPROT_ORG_KB_PATH == <<"/", "uniprot">>
UNIPROT_BETA_KB_PATH == <<"/", "uniprotkb">>

None == "None"
True == "True"
False == "False"

----------------------------------------------------------------------------
(* String helpers *)

\* str.lower on one token
LowerTok(t) ==
    CASE t = "UniProt" -> "uniprot"
      [] t = "UNIPROT" -> "uniprot"
      [] t = "Manual" -> "manual"
      [] t = "FTP" -> "ftp"
      [] t = "HTTPS" -> "https"
      [] t = "WWW.UniProt.org" -> "www.uniprot.org"
      [] OTHER -> t

\* str.lower on a token sequence
Lower(s) == [k \in 1..Len(s) |-> LowerTok(s[k])]

\* urllib.parse.unquote on one token
UnquoteTok(t) ==
    CASE t = "a%20b" -> "a b"
      [] t = "sec%2D1" -> "sec-1"
      [] OTHER -> t

\* urllib.parse.unquote on a token sequence
unquote(s) == [k \in 1..Len(s) |-> UnquoteTok(s[k])]

\* str.find: index of the first token equal to t, 0 if there is none
Find(s, t) ==
    IF \E k \in 1..Len(s) : s[k] = t
    THEN CHOOSE k \in 1..Len(s) : s[k] = t /\ \A j \in 1..(k-1) : s[j] # t
    ELSE 0

\* str.rfind + 1: index of the last token equal to t, 0 if there is none
RFind(s, t) ==
    IF \E k \in 1..Len(s) : s[k] = t
    THEN CHOOSE k \in 1..Len(s) : s[k] = t /\ \A j \in (k+1)..Len(s) : s[j] # t
    ELSE 0

\* str.rstrip('/')
RECURSIVE RStripSlash(_)
RStripSlash(s) ==
    IF s # <<>> /\ s[Len(s)] = "/" THEN RStripSlash(SubSeq(s, 1, Len(s) - 1)) ELSE s

----------------------------------------------------------------------------
(* posixpath *)

\* os.path.split: (head, tail) around the LAST slash
split(p) ==
    LET k == RFind(p, "/")
        head == SubSeq(p, 1, k)
        tail == SubSeq(p, k + 1, Len(p))
    IN  IF head # <<>> /\ (\E j \in 1..Len(head) : head[j] # "/")
        THEN <<RStripSlash(head), tail>>
        ELSE <<head, tail>>

\* os.path.join(a, b)
join(a, b) ==
    IF b # <<>> /\ b[1] = "/" THEN b
    ELSE IF a = <<>> \/ a[Len(a)] = "/" THEN a \o b
    ELSE a \o <<"/">> \o b

\* os.path.splitext on a basename: (root, ext)
splitext(b) ==
    IF Len(b) >= 2 /\ b[Len(b)] = ".md" THEN <<SubSeq(b, 1, Len(b) - 1), <<b[Len(b)]>>>>
    ELSE <<b, <<>>>>

\* os.path.basename
basename(p) == SubSeq(p, RFind(p, "/") + 1, Len(p))

----------------------------------------------------------------------------
(* urllib.parse *)

Delims == {"/", ":", "//", "?", "#"}

\* netloc with an unbalanced bracket: urlsplit raises ValueError
BadNetloc(n) == n \in {"[bad"}

\* the part of the href after the scheme
AfterScheme(u) ==
    IF Len(u) >= 2 /\ u[2] = ":" /\ u[1] \notin Delims THEN SubSeq(u, 3, Len(u)) ELSE u

\* the netloc token of an href ("" if it has none)
NetlocOf(u) ==
    LET r == AfterScheme(u)
    IN  IF Len(r) >= 2 /\ r[1] = "//" /\ r[2] \notin Delims THEN r[2] ELSE ""

\* urlparse raises
urlparse_raises(u) == BadNetloc(NetlocOf(u))

\* urlparse: scheme, netloc, path, query, fragment
urlparse(u) ==
    LET scheme == IF AfterScheme(u) # u THEN LowerTok(u[1]) ELSE ""
        r1 == AfterScheme(u)
        r2 == IF r1 # <<>> /\ r1[1] = "//"
              THEN (IF NetlocOf(u) # "" THEN SubSeq(r1, 3, Len(r1)) ELSE SubSeq(r1, 2, Len(r1)))
              ELSE r1
        h == Find(r2, "#")
        fragment == IF h > 0 THEN SubSeq(r2, h + 1, Len(r2)) ELSE <<>>
        r3 == IF h > 0 THEN SubSeq(r2, 1, h - 1) ELSE r2
        q == Find(r3, "?")
        query == IF q > 0 THEN SubSeq(r3, q + 1, Len(r3)) ELSE <<>>
        path == IF q > 0 THEN SubSeq(r3, 1, q - 1) ELSE r3
    IN  [scheme |-> scheme, netloc |-> NetlocOf(u), path |-> path,
         query |-> query, fragment |-> fragment]

\* ParseResult.hostname
hostname(parsed) == IF parsed.netloc = "" THEN None ELSE LowerTok(parsed.netloc)

uses_netloc == {"ftp", "http", "https", "file", "sftp", "ws", "wss"}

\* ParseResult.geturl
geturl(parsed) ==
    LET p0 == parsed.path
        withNet == parsed.netloc # ""
                   \/ (parsed.scheme # "" /\ parsed.scheme \in uses_netloc)
        p1 == IF withNet
              THEN <<"//">> \o (IF parsed.netloc # "" THEN <<parsed.netloc>> ELSE <<>>)
                   \o (IF p0 # <<>> /\ p0[1] # "/" THEN <<"/">> \o p0 ELSE p0)
              ELSE p0
        p2 == IF parsed.scheme # "" THEN <<parsed.scheme, ":">> \o p1 ELSE p1
        p3 == IF parsed.query # <<>> THEN p2 \o <<"?">> \o parsed.query ELSE p2
    IN  IF parsed.fragment # <<>> THEN p3 \o <<"#">> \o parsed.fragment ELSE p3

----------------------------------------------------------------------------
(* External collaborators: how the calls of one link check turn out *)

NOT_FOUND_CLASS_NAMES == <<"message--failure", "error-page-container__art-work">>

\* FTP client: a command fails with a transport error or with a reply error
\* (error_perm); once the connection has broken, later commands fail too
FtpEnvs ==
    {e \in [ftp_connect : {"ok", "transport"}, ftp_login : {"ok", "transport"},
            ftp_cwd : {"ok", "error_perm", "transport"},
            ftp_size : {"ok", "error_perm", "transport"},
            nav : {"ok"}, markers : {{}}, anchor : {"present"}, get : {"ok"}] :
        /\ (e.ftp_connect = "transport" => e.ftp_login = "transport")
        /\ (e.ftp_login = "transport" => e.ftp_cwd = "transport")
        /\ (e.ftp_cwd = "transport" => e.ftp_size = "transport")
        /\ (e.ftp_cwd = "ok" => e.ftp_size = "ok")}

\* page renderer: navigation succeeds or raises, the rendered page carries any
\* subset of the not-found markers, the anchor element shows up, never shows up
\* within TIMEOUT, or is gone again when it is looked up (what a call that is
\* never made would have returned is left at its first value)
RenderEnvs ==
    {e \in [ftp_connect : {"ok"}, ftp_login : {"ok"}, ftp_cwd : {"ok"}, ftp_size : {"ok"},
            nav : {"ok", "transport"},
            markers : SUBSET {NOT_FOUND_CLASS_NAMES[1], NOT_FOUND_CLASS_NAMES[2]},
            anchor : {"present", "timeout", "vanished"}, get : {"ok"}] :
        /\ (e.nav = "transport" => e.markers = {})
        /\ (e.nav = "transport" \/ e.markers # {} => e.anchor = "present")}

\* HTTP client: response.ok, not response.ok, or requests raises
HttpEnvs ==
    [ftp_connect : {"ok"}, ftp_login : {"ok"}, ftp_cwd : {"ok"}, ftp_size : {"ok"},
     nav : {"ok"}, markers : {{}}, anchor : {"present"},
     get : {"ok", "not_ok", "transport"}]

Envs == FtpEnvs \cup RenderEnvs \cup HttpEnvs

Call(op, arg, out) == [op |-> op, arg |-> arg, out |-> out]

RendererOps == {"driver.get", "find_elements.class", "wait.id", "find_elements.id"}
HttpOps == {"requests.get"}
FtpOps == {"FTP", "login", "cwd", "size"}

----------------------------------------------------------------------------
(* Liveness checks *)

\* does_page_exist(url)
does_page_exist(url, env) ==
    [ok |-> IF env.get = "ok" THEN True ELSE False,
     calls |-> <<Call("requests.get", url, env.get)>>]

\* is_anchor_in_page(anchor)
is_anchor_in_page(anchor, env) ==
    IF env.anchor = "timeout"
    THEN [found |-> False, calls |-> <<Call("wait.id", anchor, "timeout")>>]
    ELSE [found |-> IF env.anchor = "present" THEN True ELSE False,
          calls |-> <<Call("wait.id", anchor, "ok"),
                      Call("find_elements.id", anchor,
                           IF env.anchor = "present" THEN "found" ELSE "empty")>>]

\* the class-name lookups of is_uniprot_beta_url_ok, up to the first marker found
MarkerCalls(env) ==
    IF NOT_FOUND_CLASS_NAMES[1] \in env.markers
    THEN <<Call("find_elements.class", <<NOT_FOUND_CLASS_NAMES[1]>>, "found")>>
    ELSE <<Call("find_elements.class", <<NOT_FOUND_CLASS_NAMES[1]>>, "empty"),
           Call("find_elements.class", <<NOT_FOUND_CLASS_NAMES[2]>>,
                IF NOT_FOUND_CLASS_NAMES[2] \in env.markers THEN "found" ELSE "empty")>>

\* only the first class name is looked up
marker_found_first(env) == NOT_FOUND_CLASS_NAMES[1] \in env.markers

\* some class name of not_found_class_names has elements in the rendered page
marker_found(env) ==
    \E k \in 1..Len(NOT_FOUND_CLASS_NAMES) : NOT_FOUND_CLASS_NAMES[k] \in env.markers

\* is_uniprot_beta_url_ok(parsed)
is_uniprot_beta_url_ok(parsed, env) ==
    LET url == geturl(parsed)
        nav == <<Call("driver.get", url, env.nav)>>
    IN  IF ~(\E k \in 1..Len(url) : url[k] = UNIPROT_BETA_URL)
        THEN [exc |-> "AssertionError", ok |-> None, anchor |-> None, calls |-> <<>>]
        ELSE IF env.nav # "ok"
        THEN [exc |-> "WebDriverException", ok |-> None, anchor |-> None, calls |-> nav]
        ELSE IF marker_found(env)
        THEN [exc |-> "none", ok |-> False, anchor |-> None,
              calls |-> nav \o MarkerCalls(env)]
        ELSE IF parsed.fragment # <<>>
        THEN LET a == is_anchor_in_page(unquote(parsed.fragment), env)
             IN  [exc |-> "none", ok |-> True, anchor |-> a.found,
                  calls |-> nav \o MarkerCalls(env) \o a.calls]
        ELSE [exc |-> "none", ok |-> True, anchor |-> None,
              calls |-> nav \o MarkerCalls(env)]

\* is_ftp_url_ok(parsed)
is_ftp_url_ok(parsed, env) ==
    LET c1 == <<Call("FTP", <<parsed.netloc>>, env.ftp_connect)>>
        c2 == c1 \o <<Call("login", <<>>, env.ftp_login)>>
        path == unquote(parsed.path)
        c3 == c2 \o <<Call("cwd", path, env.ftp_cwd)>>
        c4 == c3 \o <<Call("size", path, env.ftp_size)>>
    IN  IF env.ftp_connect # "ok" THEN [ok |-> False, calls |-> c1]
        ELSE IF env.ftp_login # "ok" THEN [ok |-> False, calls |-> c2]
        ELSE IF env.ftp_cwd = "ok" THEN [ok |-> True, calls |-> c3]
        ELSE IF env.ftp_size = "ok" THEN [ok |-> True, calls |-> c4]
        ELSE [ok |-> False, calls |-> c4]

\* the rewriting of is_url_ok for a URL on www.uniprot.org: https, and the
\* path replaced when os.path.split's head is the legacy segment
rewrite_path(parsed0, parsed) ==
    LET paths == split(parsed0.path)
        https == [parsed EXCEPT !.scheme = "https"]
    IN  IF Lower(paths[1]) = UNIPROT_ORG_KB_PATH
        THEN [https EXCEPT !.path = join(UNIPROT_BETA_KB_PATH, paths[2])]
        ELSE IF paths[1] = <<"/", "manual">>
        THEN [https EXCEPT !.path = join(<<"/", "help", "/">>, paths[2])]
        ELSE https

\* dispatch without the test for the ftp scheme
dispatch_no_ftp(parsed0, parsed1) ==
    IF hostname(parsed1) = UNIPROT_ORG_URL THEN "uniprot" ELSE "generic"

\* which check is_url_ok hands the URL to: parsed0 is the result of urlparse,
\* parsed1 that result with a missing host filled in
dispatch(parsed0, parsed1) ==
    IF parsed0.scheme = "ftp" THEN "ftp"
    ELSE IF hostname(parsed1) = UNIPROT_ORG_URL THEN "uniprot"
    ELSE "generic"

\* the value of a singleton set; a value bound through {e} is computed once
Only(S) == CHOOSE x \in S : TRUE

\* is_url_ok(url): the result pair, the exception that escapes it if any, and
\* the collaborator calls it made
is_url_ok(url, env) ==
    IF urlparse_raises(url)
    THEN [href |-> url, exc |-> "ValueError", ok |-> None, anchor |-> None, calls |-> <<>>]
    ELSE Only({
        LET parsed1 == IF hostname(parsed0) = None
                       THEN [parsed0 EXCEPT !.netloc = UNIPROT_ORG_URL] ELSE parsed0
        IN  IF dispatch(parsed0, parsed1) = "ftp"
            THEN LET f == is_ftp_url_ok(parsed0, env)
                 IN  [href |-> url, exc |-> "none", ok |-> f.ok, anchor |-> None,
                      calls |-> f.calls]
            ELSE IF dispatch(parsed0, parsed1) = "uniprot"
            THEN Only({
                    LET r == is_uniprot_beta_url_ok(beta_parsed, env)
                    IN  [href |-> url, exc |-> r.exc, ok |-> r.ok, anchor |-> r.anchor,
                         calls |-> r.calls] :
                    beta_parsed \in {[rewrite_path(parsed0, parsed1)
                                        EXCEPT !.netloc = UNIPROT_BETA_URL]} })
            ELSE LET d == does_page_exist(url, env)
                 IN  [href |-> url, exc |-> "none", ok |-> d.ok, anchor |-> None,
                      calls |-> d.calls] :
        parsed0 \in {urlparse(url)} })

----------------------------------------------------------------------------
(* Inputs *)

SeqsUpTo(S, n) == UNION {[1..k -> S] : k \in 0..n}

\* an attribute of an anchor element; bs4 gives a multi-valued attribute
\* (class, rel, ...) a list of strings as its value, any other a string
Attr(name, kind, val) == [name |-> name, kind |-> kind, val |-> val]

HrefAnchor(href) == [attrs |-> <<Attr("href", "str", href)>>]

\* hrefs of the help documents: a relative /manual link with a fragment, a
\* legacy knowledge-base link without fragment, a link urlparse rejects
Hrefs ==
    { <<"/", "manual", "/", "foo", "#", "sec%2D1">>,
      <<"https", ":", "//", "www.uniprot.org", "/", "uniprot", "/", "P12345">>,
      <<"http", ":", "//", "[bad", "/", "x">> }

\* anchor elements: with an href, with a single-valued attribute only (name),
\* with a multi-valued attribute only (class)
Elements ==
    {HrefAnchor(h) : h \in Hrefs}
    \cup { [attrs |-> <<Attr("name", "str", <<"top">>)>>],
           [attrs |-> <<Attr("class", "list", <<"anchor", "hidden">>)>>] }

\* what reading and parsing a help file yields: the anchor elements in
\* document order, or an exception
DocInputs ==
    {[readable |-> TRUE, anchors |-> a] : a \in SeqsUpTo(Elements, MaxAnchors)}
    \cup {[readable |-> FALSE, anchors |-> <<>>]}

Stems == <<"glossary", "faq", "about", "sparql", "rest">>

\* glob("./uniprot-manual/help/*.md")
help_files ==
    [k \in 1..NumDocs |->
        <<".", "/", "uniprot-manual", "/", "help", "/", Stems[k], ".md">>]

\* rows a previous run left in an output file
StaleRow == <<"stale">>

----------------------------------------------------------------------------
(* Report *)

\* get_beta_help_url(help_file)
get_beta_help_url(help_file) ==
    join(UNIPROT_BETA_HELP_URL, splitext(basename(help_file))[1])

\* the line print(f"{beta_help_url}\t{target}") writes
Row(beta_help_url, target) == beta_help_url \o <<"\t">> \o target

HasHref(el) == \E k \in 1..Len(el.attrs) : el.attrs[k].name = "href"

HrefOf(el) == el.attrs[CHOOSE k \in 1..Len(el.attrs) : el.attrs[k].name = "href"].val

\* ",".join(el.attrs.values()) raises TypeError on a value that is not a str
join_raises(el) == \E k \in 1..Len(el.attrs) : el.attrs[k].kind # "str"

RECURSIVE CommaJoin(_, _)
CommaJoin(attrs, k) ==
    IF k > Len(attrs) THEN <<>>
    ELSE IF k = Len(attrs) THEN attrs[k].val
    ELSE attrs[k].val \o <<",">> \o CommaJoin(attrs, k + 1)

\* f'Anchor tag: {",".join(el.attrs.values())}'
AnchorTag(el) == <<"Anchor tag: ">> \o CommaJoin(el.attrs, 1)

\* set(l)
SetOf(l) == {l[k] : k \in 1..Len(l)}

\* the list itself is looped over, duplicates and all
iter_list(l) == {l}

\* the orders in which a for loop can visit set(l): every element once
iter_set(l) ==
    {q \in SeqsUpTo(SetOf(l), Cardinality(SetOf(l))) :
        Len(q) = Cardinality(SetOf(l)) /\ SetOf(q) = SetOf(l)}

\* the flush is missing: what was printed stays in the buffer
flush_missing(disk, buf) == [disk |-> disk, buf |-> buf]

\* file.flush(): what was printed reaches the disk
flush(disk, buf) == [disk |-> disk \o buf, buf |-> <<>>]

\* file.close() at the end of the with block
close(disk, buf) == [disk |-> disk \o buf, buf |-> <<>>]

----------------------------------------------------------------------------
(* The main block *)

NoCheck == [href |-> <<>>, exc |-> "none", ok |-> None, anchor |-> None, calls |-> <<>>]

Pending == [status |-> "pending", links |-> {}, anchors |-> {}]

Init ==
    /\ pc = "start"
    /\ i = 1
    /\ els = <<>>
    /\ _dead_links = <<>>
    /\ _dead_anchors = <<>>
    /\ dead_links = <<>>
    /\ dead_anchors = <<>>
    /\ lf_buf = <<>>
    /\ af_buf = <<>>
    /\ lf_disk \in {<<>>, <<StaleRow>>}
    /\ af_disk \in {<<>>, <<StaleRow>>}
    /\ last = NoCheck
    /\ outcome = [d \in 1..NumDocs |-> Pending]

\* remove_if_exists twice, then both files opened for writing
OpenOutputs ==
    /\ pc = "start"
    /\ pc' = "loop"
    /\ lf_disk' = <<>>
    /\ af_disk' = <<>>
    /\ UNCHANGED <<i, els, _dead_links, _dead_anchors, dead_links, dead_anchors,
                   lf_buf, af_buf, last, outcome>>

\* the exception is not caught in the loop body: it ends the run
except_handler_abort ==
    /\ pc' = "aborted"
    /\ outcome' = [outcome EXCEPT ![i].status = "failed"]
    /\ els' = <<>>
    /\ UNCHANGED <<i, dead_links, dead_anchors, lf_buf, lf_disk, af_buf, af_disk>>

\* the handler writes what the document's link loop had found so far
except_handler_partial ==
    /\ pc' = "loop"
    /\ i' = i + 1
    /\ outcome' = [outcome EXCEPT ![i].status = "failed"]
    /\ els' = <<>>
    /\ lf_disk' = lf_disk \o [k \in 1..Len(_dead_links) |->
                                Row(get_beta_help_url(help_files[i]), _dead_links[k])]
    /\ UNCHANGED <<dead_links, dead_anchors, lf_buf, af_buf, af_disk>>

\* except Exception as e: print(e); the for loop goes on with the next file
except_handler ==
    /\ pc' = "loop"
    /\ i' = i + 1
    /\ outcome' = [outcome EXCEPT ![i].status = "failed"]
    /\ els' = <<>>
    /\ UNCHANGED <<dead_links, dead_anchors, lf_buf, lf_disk, af_buf, af_disk>>

\* open, read, markdown, BeautifulSoup, and the entry of
\* check_and_standardize_all_links
ReadDocument ==
    /\ pc = "loop"
    /\ i <= NumDocs
    /\ \E d \in DocInputs :
        IF ~d.readable
        THEN except_handler
        ELSE /\ pc' = "check"
             /\ els' = d.anchors
             /\ UNCHANGED <<i, dead_links, dead_anchors, lf_buf, lf_disk,
                            af_buf, af_disk, outcome>>
    /\ _dead_links' = <<>>
    /\ _dead_anchors' = <<>>
    /\ last' = NoCheck

\* one iteration of the loop over soup.find_all("a")
CheckAnchor ==
    /\ pc = "check"
    /\ els # <<>>
    /\ LET el == Head(els)
       IN  IF ~HasHref(el)
           THEN /\ IF join_raises(el)
                   THEN except_handler /\ UNCHANGED <<_dead_links, _dead_anchors>>
                   ELSE /\ _dead_links' = Append(_dead_links, AnchorTag(el))
                        /\ els' = Tail(els)
                        /\ UNCHANGED <<pc, i, _dead_anchors, dead_links, dead_anchors,
                                       lf_buf, lf_disk, af_buf, af_disk, outcome>>
                /\ UNCHANGED last
           ELSE \E url \in {HrefOf(el)} : \E env \in Envs :
                \E r \in {is_url_ok(url, env)} :
                /\ last' = r
                /\ IF r.exc # "none"
                   THEN except_handler /\ UNCHANGED <<_dead_links, _dead_anchors>>
                   ELSE /\ _dead_links' = IF r.ok # None /\ r.ok # True
                                          THEN Append(_dead_links, url)
                                          ELSE _dead_links
                        /\ _dead_anchors' = IF r.anchor # None /\ r.anchor # True
                                            THEN Append(_dead_anchors, url)
                                            ELSE _dead_anchors
                        /\ els' = Tail(els)
                        /\ UNCHANGED <<pc, i, dead_links, dead_anchors,
                                       lf_buf, lf_disk, af_buf, af_disk, outcome>>

\* return set(_dead_links), set(_dead_anchors); the loops over the two sets
\* will visit them in some order
ReturnSets ==
    /\ pc = "check"
    /\ els = <<>>
    /\ pc' = "print"
    /\ dead_links' \in iter_set(_dead_links)
    /\ dead_anchors' \in iter_set(_dead_anchors)
    /\ outcome' = [outcome EXCEPT ![i] = [status |-> "checked",
                                          links |-> SetOf(_dead_links),
                                          anchors |-> SetOf(_dead_anchors)]]
    /\ last' = NoCheck
    /\ UNCHANGED <<i, els, _dead_links, _dead_anchors, lf_buf, lf_disk, af_buf, af_disk>>

\* print(f"{beta_help_url}\t{dead_link}", file=lf)
PrintDeadLink ==
    /\ pc = "print"
    /\ dead_links # <<>>
    /\ lf_buf' = Append(lf_buf, Row(get_beta_help_url(help_files[i]), Head(dead_links)))
    /\ dead_links' = Tail(dead_links)
    /\ pc' = "flush_lf"
    /\ UNCHANGED <<i, els, _dead_links, _dead_anchors, dead_anchors, lf_disk,
                   af_buf, af_disk, last, outcome>>

\* lf.flush()
FlushDeadLink ==
    /\ pc = "flush_lf"
    /\ lf_disk' = flush(lf_disk, lf_buf).disk
    /\ lf_buf' = flush(lf_disk, lf_buf).buf
    /\ pc' = "print"
    /\ UNCHANGED <<i, els, _dead_links, _dead_anchors, dead_links, dead_anchors,
                   af_buf, af_disk, last, outcome>>

\* print(f"{beta_help_url}\t{dead_anchor}", file=af)
PrintDeadAnchor ==
    /\ pc = "print"
    /\ dead_links = <<>>
    /\ dead_anchors # <<>>
    /\ af_buf' = Append(af_buf, Row(get_beta_help_url(help_files[i]), Head(dead_anchors)))
    /\ dead_anchors' = Tail(dead_anchors)
    /\ pc' = "flush_af"
    /\ UNCHANGED <<i, els, _dead_links, _dead_anchors, dead_links, lf_buf, lf_disk,
                   af_disk, last, outcome>>

\* af.flush()
FlushDeadAnchor ==
    /\ pc = "flush_af"
    /\ af_disk' = flush(af_disk, af_buf).disk
    /\ af_buf' = flush(af_disk, af_buf).buf
    /\ pc' = "print"
    /\ UNCHANGED <<i, els, _dead_links, _dead_anchors, dead_links, dead_anchors,
                   lf_buf, lf_disk, last, outcome>>

\* the try block ends without an exception; the for loop goes on
NextDocument ==
    /\ pc = "print"
    /\ dead_links = <<>>
    /\ dead_anchors = <<>>
    /\ pc' = "loop"
    /\ i' = i + 1
    /\ outcome' = [outcome EXCEPT ![i].status = "ok"]
    /\ UNCHANGED <<els, _dead_links, _dead_anchors, dead_links, dead_anchors,
                   lf_buf, lf_disk, af_buf, af_disk, last>>

\* the for loop is exhausted; the with block closes both files
CloseOutputs ==
    /\ pc = "loop"
    /\ i > NumDocs
    /\ pc' = "done"
    /\ lf_disk' = close(lf_disk, lf_buf).disk
    /\ lf_buf' = close(lf_disk, lf_buf).buf
    /\ af_disk' = close(af_disk, af_buf).disk
    /\ af_buf' = close(af_disk, af_buf).buf
    /\ UNCHANGED <<i, els, _dead_links, _dead_anchors, dead_links, dead_anchors,
                   last, outcome>>

Next ==
    \/ OpenOutputs
    \/ ReadDocument
    \/ CheckAnchor
    \/ ReturnSets
    \/ PrintDeadLink
    \/ FlushDeadLink
    \/ PrintDeadAnchor
    \/ FlushDeadAnchor
    \/ NextDocument
    \/ CloseOutputs

Spec == Init /\ [][Next]_vars

\* the main block is sequential code: it takes its next step
FairSpec == Spec /\ WF_vars(Next)

----------------------------------------------------------------------------
(* is_url_ok on its own, over a family of hrefs *)

Segs == {"P12345", "entry"}

\* "/s1/s2/.../sk"
RECURSIVE Slashed(_)
Slashed(ss) == IF ss = <<>> THEN <<>> ELSE <<"/", Head(ss)>> \o Slashed(Tail(ss))

\* what follows the first path segment: up to MaxSegs further segments, with
\* or without a trailing slash
Rests ==
    {Slashed(ss) \o tr : ss \in SeqsUpTo(Segs, MaxSegs), tr \in {<<>>, <<"/">>}}

FirstSegs == {"uniprot", "UniProt", "manual", "help"}

Origins ==
    { <<>>,
      <<"https", ":", "//", "www.uniprot.org">>,
      <<"http", ":", "//", "WWW.UniProt.org">>,
      <<"https", ":", "//", "www.ebi.ac.uk">>,
      <<"FTP", ":", "//", "ftp.uniprot.org">>,
      <<"ftp", ":", "//", "www.uniprot.org">>,
      <<"http", ":", "//", "[bad">> }

Suffixes ==
    { <<>>, <<"?", "query=a%20b">>, <<"#", "sec%2D1">>,
      <<"?", "query=a%20b", "#", "sec%2D1">> }

AllHrefs ==
    {o \o <<"/", f>> \o r \o x :
        o \in Origins, f \in FirstSegs, r \in Rests, x \in Suffixes}
    \cup {o \o x : o \in Origins, x \in Suffixes}

InitUrl ==
    /\ pc = "is_url_ok"
    /\ i = 1
    /\ els = <<>>
    /\ _dead_links = <<>>
    /\ _dead_anchors = <<>>
    /\ dead_links = <<>>
    /\ dead_anchors = <<>>
    /\ lf_buf = <<>>
    /\ af_buf = <<>>
    /\ lf_disk = <<>>
    /\ af_disk = <<>>
    /\ last = NoCheck
    /\ outcome = [d \in 1..NumDocs |-> Pending]

\* one call of is_url_ok
UrlCheck ==
    /\ pc = "is_url_ok"
    /\ pc' = "returned"
    /\ \E url \in AllHrefs, env \in Envs :
        last' = is_url_ok(url, env)
    /\ UNCHANGED <<i, els, _dead_links, _dead_anchors, dead_links, dead_anchors,
                   lf_buf, lf_disk, af_buf, af_disk, outcome>>

NextUrl == UrlCheck

UrlSpec == InitUrl /\ [][NextUrl]_vars

----------------------------------------------------------------------------
(* Properties of is_url_ok, under UrlSpec *)

LegacyOrigin == <<"https", ":", "//", "www.uniprot.org">>

BetaOrigin == <<"https", ":", "//", "beta.uniprot.org">>

\* the call is_url_ok made to the page renderer's navigation, if any
Navigated == last.calls # <<>> /\ last.calls[1].op = "driver.get"

\* C1: for every path P of one or more segments, with or without a trailing
\* slash, and either spelling of the first segment, is_url_ok applied to
\* https://www.uniprot.org/uniprot/P navigates the page renderer to
\* https://beta.uniprot.org/uniprotkb/P
C1_KbPathRewritten ==
    \A kb \in {"uniprot", "UniProt"} : \A r \in Rests :
        (Len(r) >= 2 /\ last.href = LegacyOrigin \o <<"/", kb>> \o r)
            => (Navigated /\ last.calls[1].arg = BetaOrigin \o <<"/", "uniprotkb">> \o r)

\* C2: for every URL on the legacy host whose first path segment is manual,
\* whatever follows it, the URL the page renderer is navigated to has that
\* segment replaced by help and the same remaining segments, query and fragment
C2_ManualRewritten ==
    \A o \in {LegacyOrigin, <<"http", ":", "//", "WWW.UniProt.org">>} :
    \A r \in Rests : \A x \in Suffixes :
        last.href = o \o <<"/", "manual">> \o r \o x
            => /\ Navigated
               /\ urlparse(last.calls[1].arg).path = <<"/", "help">> \o r
               /\ urlparse(last.calls[1].arg).query = urlparse(last.href).query
               /\ urlparse(last.calls[1].arg).fragment = urlparse(last.href).fragment

\* C3: whenever a collaborator call of a link check (FTP connect, login, cwd,
\* size, renderer navigation, HTTP GET) fails with a transport exception, the
\* check returns reachable = false and no exception leaves is_url_ok
C3_TransportErrorMeansDead ==
    (\E k \in 1..Len(last.calls) : last.calls[k].out = "transport")
        => (last.exc = "none" /\ last.ok = False)

\* C6: for every href whose scheme is ftp, is_url_ok makes no page-renderer
\* call and no HTTP GET; it connects to the host as written in the href, asks
\* for the (percent-decoded) path of the href, and returns anchor = None
C6_FtpUsesOnlyFtpClient ==
    (last.href # <<>> /\ urlparse(last.href).scheme = "ftp")
        => /\ \A k \in 1..Len(last.calls) :
                /\ last.calls[k].op \in FtpOps
                /\ last.calls[k].op \notin RendererOps \cup HttpOps
           /\ ~urlparse_raises(last.href)
                => /\ last.exc = "none"
                   /\ last.anchor = None
                   /\ last.ok \in {True, False}
                   /\ last.calls # <<>>
                   /\ last.calls[1].op = "FTP"
                   /\ last.calls[1].arg = <<NetlocOf(last.href)>>
                   /\ \A k \in 1..Len(last.calls) :
                        last.calls[k].op \in {"cwd", "size"}
                            => last.calls[k].arg = unquote(urlparse(last.href).path)

\* an FTP href with its scheme in upper case was checked: the directory
\* lookup was refused, the file lookup answered
C6_Witness ==
    /\ last.href # <<>>
    /\ last.href[1] = "FTP"
    /\ Len(last.calls) = 4
    /\ last.calls[3].out = "error_perm"
    /\ last.calls[4].out = "ok"
    /\ last.ok = True

----------------------------------------------------------------------------
(* Properties of the main block, under Spec and FairSpec *)

DocUrl(d) == get_beta_help_url(help_files[d])

\* number of rows of a table that report target t for document d
CountRows(table, d, t) ==
    Cardinality({k \in 1..Len(table) : table[k] = Row(DocUrl(d), t)})

\* no row of the table is a row of document d
NoRowsFor(table, d) ==
    \A k \in 1..Len(table) :
        ~(/\ Len(table[k]) > Len(DocUrl(d))
          /\ SubSeq(table[k], 1, Len(DocUrl(d)) + 1) = DocUrl(d) \o <<"\t">>)

NoRowTwice(table) ==
    \A k1, k2 \in 1..Len(table) : table[k1] = table[k2] => k1 = k2

\* C4: the run reaches its end with every document attempted, whatever
\* exceptions the documents raised on the way
C4_EveryDocumentAttempted ==
    <>(pc = "done" /\ \A d \in 1..NumDocs : outcome[d].status \in {"ok", "failed"})

\* the run ended after its first document failed and its last one was
\* processed and reported a dead link
C4_Witness ==
    /\ pc = "done"
    /\ outcome[1].status = "failed"
    /\ outcome[NumDocs].status = "ok"
    /\ outcome[NumDocs].links # {}

\* C5 as stated: once the processing of a document has ended, each distinct
\* target found dead in it has exactly one row in the dead-links table, and
\* each distinct dead-anchor target exactly one row in the dead-anchors table
C5_EveryDeadTargetHasOneRow ==
    (pc = "loop" /\ i > 1)
        => /\ \A t \in SetOf(_dead_links) : CountRows(lf_disk, i - 1, t) = 1
           /\ \A t \in SetOf(_dead_anchors) : CountRows(af_disk, i - 1, t) = 1

\* C5 amended: for a document processed without an exception, each distinct
\* dead target has exactly one row, however often its href occurred; no table
\* ever holds a row twice
C5_CompletedDocumentOneRowPerTarget ==
    /\ \A d \in 1..NumDocs :
        outcome[d].status = "ok"
            => /\ \A t \in outcome[d].links : CountRows(lf_disk, d, t) = 1
               /\ \A t \in outcome[d].anchors : CountRows(af_disk, d, t) = 1
    /\ (pc = "loop" /\ i > 1 /\ outcome[i - 1].status = "ok")
            => /\ SetOf(_dead_links) = outcome[i - 1].links
               /\ SetOf(_dead_anchors) = outcome[i - 1].anchors
    /\ NoRowTwice(lf_disk \o lf_buf)
    /\ NoRowTwice(af_disk \o af_buf)

\* a document in which the same href was found dead twice has been processed:
\* the dead-links table has one row for it
C5_Witness ==
    /\ pc = "loop"
    /\ i > 1
    /\ outcome[i - 1].status = "ok"
    /\ Len(_dead_links) = 2
    /\ _dead_links[1] = _dead_links[2]
    /\ _dead_links[1] \in Hrefs
    /\ CountRows(lf_disk, i - 1, _dead_links[1]) = 1

\* the step is the check of an href for which the renderer found a not-found
\* marker in the page
MarkerSeen ==
    /\ pc = "check"
    /\ els # <<>>
    /\ HasHref(Head(els))
    /\ \E k \in 1..Len(last'.calls) :
        last'.calls[k].op = "find_elements.class" /\ last'.calls[k].out = "found"

\* C7: when the rendered page of a known-site URL has a not-found marker, the
\* check returns (False, None) without looking for the anchor, and the href
\* is appended to the dead links and not to the dead anchors
C7_MarkerMeansDeadLink ==
    [][MarkerSeen
        => /\ last'.exc = "none"
           /\ last'.ok = False
           /\ last'.anchor = None
           /\ \A k \in 1..Len(last'.calls) :
                last'.calls[k].op \notin {"wait.id", "find_elements.id"}
           /\ _dead_links' = Append(_dead_links, HrefOf(Head(els)))
           /\ _dead_anchors' = _dead_anchors]_vars

\* an href with a fragment was checked, only the art-work marker was on its
\* page, and it is the latest dead link
C7_Witness ==
    /\ pc = "check"
    /\ urlparse(last.href).fragment # <<>>
    /\ Len(last.calls) = 3
    /\ last.calls[2].out = "empty"
    /\ last.calls[3].out = "found"
    /\ _dead_links # <<>>
    /\ _dead_links[Len(_dead_links)] = last.href
    /\ _dead_anchors = <<>>

\* C8: an anchor element without href, whatever its other attributes, adds
\* one entry to the dead links and the loop goes on with the next element of
\* the same document
C8_MalformedAnchorNotFatal ==
    [][(pc = "check" /\ els # <<>> /\ ~HasHref(Head(els)))
        => /\ pc' = "check"
           /\ i' = i
           /\ els' = Tail(els)
           /\ Len(_dead_links') = Len(_dead_links) + 1]_vars

\* C9: at every point of the run, every record of every document processed to
\* its end is on disk, and nothing printed waits in a buffer except the one
\* record whose flush is the next statement
C9_RecordsFlushedPerRecord ==
    /\ \A d \in 1..NumDocs :
        outcome[d].status = "ok"
            => /\ \A t \in outcome[d].links : CountRows(lf_disk, d, t) >= 1
               /\ \A t \in outcome[d].anchors : CountRows(af_disk, d, t) >= 1
    /\ lf_buf # <<>> => (pc = "flush_lf" /\ Len(lf_buf) = 1)
    /\ af_buf # <<>> => (pc = "flush_af" /\ Len(af_buf) = 1)

\* the second document's links are being checked while the first document's
\* dead link and dead anchor are on disk
C9_Witness ==
    /\ pc = "check"
    /\ i = 2
    /\ outcome[1].status = "ok"
    /\ outcome[1].links # {}
    /\ outcome[1].anchors # {}
    /\ Len(lf_disk) = Cardinality(outcome[1].links)
    /\ Len(af_disk) = Cardinality(outcome[1].anchors)

\* the step is the failure of the current document
DocumentFails ==
    /\ i <= NumDocs
    /\ outcome[i].status # "failed"
    /\ outcome'[i].status = "failed"

\* C10: a document whose processing raised has no row in either table, and
\* the step on which it fails leaves both tables as they were
C10_FailedDocumentWritesNothing ==
    /\ [](\A d \in 1..NumDocs :
            outcome[d].status = "failed"
                => /\ NoRowsFor(lf_disk \o lf_buf, d)
                   /\ NoRowsFor(af_disk \o af_buf, d))
    /\ [][DocumentFails
            => UNCHANGED <<lf_disk, lf_buf, af_disk, af_buf>>]_vars

\* the second document failed after a link of it had been found dead, the
\* first document's rows are in the table and none of the second's
C10_Witness ==
    /\ pc = "loop"
    /\ i = 3
    /\ outcome[1].status = "ok"
    /\ outcome[1].links # {}
    /\ outcome[2].status = "failed"
    /\ _dead_links # <<>>
    /\ Len(lf_disk) = Cardinality(outcome[1].links)

====
